---- MODULE Spec2Model ----
(***************************************************************************)
(* Model of the i.MX6 bring-up and UART console layer of tamago:           *)
(*   src/imx6/uart.go      the UART driver (Init, Write, Read)             *)
(*   src/unnamed/part_000  hwinit, initRNG, SiliconVersion, UniqueID,      *)
(*                         Model, Reboot                                   *)
(*                                                                         *)
(* Registers are words of memory indexed by their physical address.  TLC   *)
(* integers are 32-bit signed, so every modelled word and every input is   *)
(* below 2^31: bit 31 of a word is always 0 here, and the baud rates are   *)
(* below 2^30, where the uint32 product 2*baudrate does not wrap.          *)
(***************************************************************************)
EXTENDS Integers, Sequences, FiniteSets, TLC

\* ------------------------------------------------------------ constants

\* src/imx6/uart.go
UART_DEFAULT_BAUDRATE == 115200
ESC == 27
UART2_BASE == 35553280
UARTx_URXD == 0
URXD_PRERR == 10
URXD_RX_DATA == 0
UARTx_UTXD == 64
UARTx_UCR1 == 128
UCR1_UARTEN == 0
UARTx_UCR2 == 132
UCR2_IRTS == 14
UCR2_WS == 5
UCR2_TXEN == 2
UCR2_RXEN == 1
UCR2_SRST == 0
UARTx_UCR3 == 136
UCR3_DSR == 10
UCR3_DCD == 9
UCR3_RI == 8
UCR3_ADNIMP == 7
UCR3_RXDMUXSEL == 2
UARTx_UCR4 == 140
UCR4_CTSTL == 10
UARTx_UFCR == 144
UFCR_TXTL == 10
UFCR_RFDIV == 7
UFCR_RXTL == 0
UARTx_USR2 == 152
USR2_RDR == 0
UARTx_UESC == 156
UARTx_UTIM == 160
UARTx_UBIR == 164
UARTx_UBMR == 168
UARTx_UTS == 180
UTS_TXEMPTY == 6

\* src/unnamed/part_000
WDOG1_WCR == 34324480
OCOTP_CFG0 == 35374096
OCOTP_CFG1 == 35374112
USB_ANALOG_DIGPROG == 34374240
SRC_SCR == 34439168
SCR_WARM_RESET_ENABLE == 0
SYS_CNT_BASE == 35504128
IMX6Q == 99
IMX6UL == 100
IMX6ULL == 101

\* The clock controller's declarations (imx6 clock definitions used by
\* uartclk): the UART clock root register, its select bit and divider field,
\* and the two reference frequencies.
CCM_CSCDR1 == 34357284
CSCDR1_UART_CLK_SEL == 6
CSCDR1_CLK_PODF == 0
OSC_FREQ == 24000000
VCO_FREQ == 480000000

\* ------------------------------------------------------ word arithmetic

\* Go's & on unsigned words.
RECURSIVE BitAnd(_, _)
BitAnd(a, b) ==
  IF a = 0 \/ b = 0 THEN 0
  ELSE (a % 2) * (b % 2) + 2 * BitAnd(a \div 2, b \div 2)

\* Go's | on unsigned words.
RECURSIVE BitOr(_, _)
BitOr(a, b) ==
  IF a = 0 THEN b
  ELSE IF b = 0 THEN a
  ELSE (IF a % 2 = 1 \/ b % 2 = 1 THEN 1 ELSE 0) + 2 * BitOr(a \div 2, b \div 2)

\* Go's >> and << (every shifted value of the model stays below 2^31).
Shr(v, n) == v \div (2 ^ n)
Shl(v, n) == v * (2 ^ n)

\* bits.Set(&v, pos): v |= 1 << pos
bitsSet(v, pos) == BitOr(v, Shl(1, pos))

\* bits.Clear(&v, pos): v &^= 1 << pos
bitsClear(v, pos) == v - BitAnd(v, Shl(1, pos))

\* bits.SetN(&v, pos, mask, val): v = (v & ^(mask << pos)) | (val << pos)
bitsSetN(v, pos, mask, val) == BitOr(v - BitAnd(v, Shl(mask, pos)), Shl(val, pos))

\* reg.Read(addr)
regRead(R, addr) == R[addr]

\* reg.Get(addr, pos, mask): (word >> pos) & mask
regGet(R, addr, pos, mask) == BitAnd(Shr(R[addr], pos), mask)

\* reg.Write(addr, val)
regWrite(R, addr, val) == [R EXCEPT ![addr] = val]

\* reg.Write16(addr, val): a 16-bit store, the upper half-word is not touched
regWrite16(R, addr, val) ==
  [R EXCEPT ![addr] = (@ \div 65536) * 65536 + (val % 65536)]

\* reg.Set(addr, pos), reg.Clear(addr, pos), reg.SetN(addr, pos, mask, val):
\* read-modify-write of one word
regSet(R, addr, pos) == [R EXCEPT ![addr] = bitsSet(@, pos)]
regClear(R, addr, pos) == [R EXCEPT ![addr] = bitsClear(@, pos)]
regSetN(R, addr, pos, mask, val) == [R EXCEPT ![addr] = bitsSetN(@, pos, mask, val)]

\* ------------------------------------------------------- pure functions

\* uartclk(): the UART clock root frequency from the clock controller
uartclk(R) ==
  LET freq == IF regGet(R, CCM_CSCDR1, CSCDR1_UART_CLK_SEL, 1) = 1
              THEN OSC_FREQ ELSE VCO_FREQ
      podf == regGet(R, CCM_CSCDR1, CSCDR1_CLK_PODF, 63)
  IN  freq \div (podf + 1)

\* Mutant of txEmpty: the loop condition tests for the bit being set.
txEmpty_inverted(R, h) == regGet(R, h.uts, UTS_TXEMPTY, 1) = 1

\* Uart.txEmpty(): true while the TXEMPTY status bit reads 0
txEmpty(R, h) == regGet(R, h.uts, UTS_TXEMPTY, 1) = 0

\* Mutant of rxReady: the ready bit is not consulted.
rxReady_always(R, h) == TRUE

\* Uart.rxReady()
rxReady(R, h) == regGet(R, h.usr2, USR2_RDR, 1) = 1

\* Mutant of rxError: a 4-bit mask, which leaves URXD_ERR out.
rxError_mask4(R, h) == regGet(R, h.urxd, URXD_PRERR, 15) # 0

\* Uart.rxError(): the 5-bit field starting at URXD_PRERR is not 0
rxError(R, h) == regGet(R, h.urxd, URXD_PRERR, 31) # 0

\* Uart.Init: clk := uartclk() / 6
initClk(R) == uartclk(R) \div 6

\* Mutant of initUbmr: the factor that matches UFCR_RFDIV is left out.
initUbmr_single(clk, baudrate) == clk \div baudrate

\* Uart.Init: ubmr := clk / (2 * baudrate); baudrate < 2^30, so no wrap
initUbmr(clk, baudrate) == clk \div (2 * baudrate)

\* Uart.Init: the value built for UCR3
initUcr3 ==
  bitsSet(bitsSet(bitsSet(bitsSet(bitsSet(0, UCR3_DSR), UCR3_DCD), UCR3_RI),
                  UCR3_ADNIMP), UCR3_RXDMUXSEL)

\* Uart.Init: the value built for UFCR
initUfcr ==
  bitsSetN(bitsSetN(bitsSetN(0, UFCR_RFDIV, 7, 4), UFCR_TXTL, 63, 2),
           UFCR_RXTL, 63, 1)

\* Mutant of initUcr2: the receiver is not enabled.
initUcr2_noRXEN ==
  bitsSet(bitsSet(bitsSet(bitsSet(0, UCR2_IRTS), UCR2_WS), UCR2_TXEN), UCR2_SRST)

\* Uart.Init: the value built for UCR2
initUcr2 ==
  bitsSet(bitsSet(bitsSet(bitsSet(bitsSet(0, UCR2_IRTS), UCR2_WS), UCR2_TXEN),
                  UCR2_RXEN), UCR2_SRST)

\* Uart.init: the register addresses of the instance at base
uartAddrs(base) ==
  [urxd |-> base + UARTx_URXD, utxd |-> base + UARTx_UTXD,
   ucr1 |-> base + UARTx_UCR1, ucr2 |-> base + UARTx_UCR2,
   ucr3 |-> base + UARTx_UCR3, ucr4 |-> base + UARTx_UCR4,
   ufcr |-> base + UARTx_UFCR, usr2 |-> base + UARTx_USR2,
   uesc |-> base + UARTx_UESC, utim |-> base + UARTx_UTIM,
   ubir |-> base + UARTx_UBIR, ubmr |-> base + UARTx_UBMR,
   uts |-> base + UARTx_UTS]

\* var UART2 = &Uart{}: every field zero until init runs
UART2_zero ==
  [urxd |-> 0, utxd |-> 0, ucr1 |-> 0, ucr2 |-> 0, ucr3 |-> 0, ucr4 |-> 0,
   ufcr |-> 0, usr2 |-> 0, uesc |-> 0, utim |-> 0, ubir |-> 0, ubmr |-> 0,
   uts |-> 0]

\* Mutant of SiliconVersion: the family is not masked to one byte.
SiliconVersion_unmasked(R) ==
  LET sv == regRead(R, USB_ANALOG_DIGPROG)
  IN  <<sv, Shr(sv, 16), BitAnd(Shr(sv, 8), 255), BitAnd(sv, 255)>>

\* SiliconVersion(): (sv, family, revMajor, revMinor)
SiliconVersion(R) ==
  LET sv == regRead(R, USB_ANALOG_DIGPROG)
  IN  <<sv, BitAnd(Shr(sv, 16), 255), BitAnd(Shr(sv, 8), 255), BitAnd(sv, 255)>>

\* binary.LittleEndian.PutUint32: the four bytes of v, lowest first
PutUint32(v) ==
  <<v % 256, (v \div 256) % 256, (v \div 65536) % 256, (v \div 16777216) % 256>>

\* Mutant of UniqueID: the two words are stored in the other order.
UniqueID_swapped(R) ==
  PutUint32(regRead(R, OCOTP_CFG1)) \o PutUint32(regRead(R, OCOTP_CFG0))

\* UniqueID(): CFG0 then CFG1, each little-endian
UniqueID(R) == PutUint32(regRead(R, OCOTP_CFG0)) \o PutUint32(regRead(R, OCOTP_CFG1))

\* Mutant of Model: no default case, an unknown family gets the last name.
Model_noDefault(fam) ==
  CASE fam = IMX6Q -> "i.MX6Q"
    [] fam = IMX6UL -> "i.MX6UL"
    [] OTHER -> "i.MX6ULL"

\* Model(): the switch on Family
Model(fam) ==
  CASE fam = IMX6Q -> "i.MX6Q"
    [] fam = IMX6UL -> "i.MX6UL"
    [] fam = IMX6ULL -> "i.MX6ULL"
    [] OTHER -> "unknown"

\* Mutant of hwinitTimer: the default case starts the generic timer.
hwinitTimer_defaultGeneric(fam, native) ==
  CASE fam = IMX6Q -> [fn |-> "InitGlobalTimers", base |-> 0, freq |-> 0]
    [] OTHER ->
         IF ~native
         THEN [fn |-> "InitGenericTimers", base |-> SYS_CNT_BASE, freq |-> 62500000]
         ELSE [fn |-> "InitGenericTimers", base |-> SYS_CNT_BASE, freq |-> 8000000]

\* Mutant of hwinitTimer: the two frequencies are exchanged.
hwinitTimer_swapped(fam, native) ==
  CASE fam = IMX6Q -> [fn |-> "InitGlobalTimers", base |-> 0, freq |-> 0]
    [] fam = IMX6UL \/ fam = IMX6ULL ->
         IF ~native
         THEN [fn |-> "InitGenericTimers", base |-> SYS_CNT_BASE, freq |-> 8000000]
         ELSE [fn |-> "InitGenericTimers", base |-> SYS_CNT_BASE, freq |-> 62500000]
    [] OTHER -> [fn |-> "InitGlobalTimers", base |-> 0, freq |-> 0]

\* hwinit: the timer source the switch on Family starts
hwinitTimer(fam, native) ==
  CASE fam = IMX6Q -> [fn |-> "InitGlobalTimers", base |-> 0, freq |-> 0]
    [] fam = IMX6UL \/ fam = IMX6ULL ->
         IF ~native
         THEN [fn |-> "InitGenericTimers", base |-> SYS_CNT_BASE, freq |-> 62500000]
         ELSE [fn |-> "InitGenericTimers", base |-> SYS_CNT_BASE, freq |-> 8000000]
    [] OTHER -> [fn |-> "InitGlobalTimers", base |-> 0, freq |-> 0]

\* Mutant of initRNGChoice: the native flag is not consulted.
initRNGChoice_familyOnly(fam, native) == IF fam = IMX6ULL THEN "RNGB" ELSE "LCG"

\* initRNG: the entropy source the condition selects
initRNGChoice(fam, native) == IF fam = IMX6ULL /\ native THEN "RNGB" ELSE "LCG"

\* ---------------------------------------------------------------- state

VARIABLES
  regs,             \* the memory-mapped registers, by physical address
  rxFifo,           \* hardware: receive-FIFO entries behind the one URXD shows
  UART2,            \* the Uart instance: its register addresses
  mutex,            \* the instance's sync.Mutex: "none" or the holder
  Family,           \* var Family uint32
  Native,           \* var Native bool
  getRandomDataFn,  \* the bound entropy source: "nil", "RNGB" or "LCG"
  rngbInit,         \* whether RNGB.Init() has been called
  arm,              \* the calls made on the ARM CPU instance, in order
  pc,               \* each thread's position
  loc,              \* each thread's locals of the running call
  ret,              \* each thread's result of the call that has returned
  calls             \* each thread's number of calls started after bring-up

vars == <<regs, rxFifo, UART2, mutex, Family, Native, getRandomDataFn,
          rngbInit, arm, pc, loc, ret, calls>>

\* Calls the main thread makes after bring-up.
MaxCalls == 2

\* Calls each goroutine started by the main thread makes.
MaxProcCalls == 2

\* The goroutines the main thread may start, and every thread.
Procs == {"p1", "p2"}
Threads == {"main"} \cup Procs

Addrs ==
  {UART2_BASE + o : o \in {UARTx_URXD, UARTx_UTXD, UARTx_UCR1, UARTx_UCR2,
                           UARTx_UCR3, UARTx_UCR4, UARTx_UFCR, UARTx_USR2,
                           UARTx_UESC, UARTx_UTIM, UARTx_UBIR, UARTx_UBMR,
                           UARTx_UTS}}
  \cup {CCM_CSCDR1, USB_ANALOG_DIGPROG, OCOTP_CFG0, OCOTP_CFG1, SRC_SCR,
        WDOG1_WCR}

\* Every modelled bit of a word set: 2^31 - 1.
AllOnes == 1073741824 + 1073741823

\* Chip-version register contents: known and unknown families, the four
\* zero/nonzero revision pairs, with and without bits above the family byte.
DigprogVals ==
  {Shl(top, 24) + Shl(fam, 16) + Shl(maj, 8) + min :
     top \in {0, 18}, fam \in {0, IMX6Q, IMX6UL, IMX6ULL, 102},
     maj \in {0, 1}, min \in {0, 2}}

\* Clock root register contents: both clock selections, divider 0, 1, 5 and
\* 63, and every bit outside the two fields set.
CcmVals == {0, 64, 1, 69, AllOnes - 64, AllOnes}

\* Receive-data register contents: a clean character, each single error bit,
\* every error bit, a character with the bit below the error field set, and a
\* character whose CHARRDY bit is 0.
RxWords ==
  {32768 + 65, 32768 + 512 + 69, 70, 32768 + 31744 + 255}
  \cup {32768 + Shl(1, e) + 66 : e \in 10..14}

RxTapes == {<< >>, <<32768 + 4096 + 67>>, <<32768 + 68>>}

RxScenarios ==
  {[urxd |-> w, rdr |-> r, fifo |-> f] :
     w \in RxWords, r \in {0, 1}, f \in RxTapes}

\* Reset-control and watchdog words.
ScrWdogVals == {<<1, 48>>, <<1313, 16711728>>, <<0, 0>>, <<AllOnes, AllOnes>>}

\* One-time-programmable identification words.
CfgVals == {<<0, 0>>, <<16909060, 2047544333>>, <<AllOnes, 255>>}

\* UART register file before the driver touches it: the reset values, a
\* zeroed memory, and every bit set.
UartImages == {"reset", "zero", "ones"}

Bauds == {0, 1, 9600, UART_DEFAULT_BAUDRATE, 1073741823}

Chars == {0, 65, 255}

\* Readings of the timer counter.
Ticks == {0, 7}

UartResetValue(o) ==
  CASE o = UARTx_UCR2 -> 1
    [] o = UARTx_UCR3 -> 1792
    [] o = UARTx_UCR4 -> 32768
    [] o = UARTx_UFCR -> 2049
    [] o = UARTx_USR2 -> 16424
    [] o = UARTx_UESC -> 43
    [] o = UARTx_UTS -> 96
    [] OTHER -> 0

Machine(d, c, img, rx, sw, cfg) ==
  [a \in Addrs |->
     CASE a = USB_ANALOG_DIGPROG -> d
       [] a = CCM_CSCDR1 -> c
       [] a = SRC_SCR -> sw[1]
       [] a = WDOG1_WCR -> sw[2]
       [] a = OCOTP_CFG0 -> cfg[1]
       [] a = OCOTP_CFG1 -> cfg[2]
       [] a = UART2_BASE + UARTx_URXD -> rx.urxd
       [] a = UART2_BASE + UARTx_USR2 ->
            bitsSetN(IF img = "reset" THEN UartResetValue(UARTx_USR2)
                     ELSE IF img = "zero" THEN 0 ELSE AllOnes,
                     USR2_RDR, 1, rx.rdr)
       [] OTHER -> IF img = "reset" THEN UartResetValue(a - UART2_BASE)
                   ELSE IF img = "zero" THEN 0 ELSE AllOnes]

DefDigprog == Shl(IMX6ULL, 16) + Shl(1, 8) + 2
DefRx == [urxd |-> 32768 + 65, rdr |-> 1, fifo |-> << >>]

\* The machines bring-up starts on: one register group varied at a time.
Machines ==
  {[regs |-> Machine(d, 0, "reset", DefRx, <<1, 48>>, <<0, 0>>),
    fifo |-> << >>] : d \in DigprogVals}
  \cup {[regs |-> Machine(DefDigprog, c, img, DefRx, <<1, 48>>, <<0, 0>>),
         fifo |-> << >>] : c \in CcmVals, img \in UartImages}
  \cup {[regs |-> Machine(DefDigprog, 0, "reset", rx, <<1, 48>>, <<0, 0>>),
         fifo |-> rx.fifo] : rx \in RxScenarios}
  \cup {[regs |-> Machine(DefDigprog, 0, "reset", DefRx, sw, cfg),
         fifo |-> << >>] : sw \in ScrWdogVals, cfg \in CfgVals}

NoLoc == [op |-> "none", arg |-> 0, rdr |-> -1, err |-> -1, rxw |-> -1,
          txe |-> -1, srst |-> -1, ubmr |-> 0, revMajor |-> 0, revMinor |-> 0]

Init ==
  /\ \E m \in Machines : regs = m.regs /\ rxFifo = m.fifo
  /\ UART2 = UART2_zero
  /\ mutex = "none"
  /\ Family = 0
  /\ Native = FALSE
  /\ getRandomDataFn = "nil"
  /\ rngbInit = FALSE
  /\ arm = << >>
  /\ pc = [t \in Threads |-> IF t = "main" THEN "boot" ELSE "off"]
  /\ loc = [t \in Threads |-> NoLoc]
  /\ ret = [t \in Threads |-> << >>]
  /\ calls = [t \in Threads |-> 0]

\* ------------------------------------------------------------- hardware

UCR2_ADDR == UART2_BASE + UARTx_UCR2
UTS_ADDR == UART2_BASE + UARTx_UTS
URXD_ADDR == UART2_BASE + UARTx_URXD
USR2_ADDR == UART2_BASE + UARTx_USR2

\* The software reset started by a 0 in UCR2.SRST completes: the bit reads 1.
HwSrstDone ==
  /\ regGet(regs, UCR2_ADDR, UCR2_SRST, 1) = 0
  /\ \A t \in Threads : pc[t] # "panic"
  /\ regs' = regSet(regs, UCR2_ADDR, UCR2_SRST)
  /\ UNCHANGED <<rxFifo, UART2, mutex, Family, Native, getRandomDataFn,
                 rngbInit, arm, pc, loc, ret, calls>>

\* The transmitter has shifted the last character out: TXEMPTY reads 1.
HwTxDone ==
  /\ regGet(regs, UTS_ADDR, UTS_TXEMPTY, 1) = 0
  /\ \A t \in Threads : pc[t] # "panic"
  /\ regs' = regSet(regs, UTS_ADDR, UTS_TXEMPTY)
  /\ UNCHANGED <<rxFifo, UART2, mutex, Family, Native, getRandomDataFn,
                 rngbInit, arm, pc, loc, ret, calls>>

\* A store to the transmit-data register fills the transmit FIFO.
HwAfterUtxdWrite(R) == regClear(R, UTS_ADDR, UTS_TXEMPTY)

\* A load of the receive-data register takes the entry off the receive FIFO:
\* the next entry shows, or the FIFO is empty and the ready bit drops.
HwAfterUrxdRead(R, F) ==
  IF F # << >>
  THEN [regs |-> [R EXCEPT ![URXD_ADDR] = Head(F)], fifo |-> Tail(F)]
  ELSE [regs |-> regClear(R, USR2_ADDR, USR2_RDR), fifo |-> F]

\* --------------------------------------------------------------- hwinit

ArmCall(name) == [fn |-> name, base |-> 0, freq |-> 0]

\* hwinit: ARM.Init()
HwinitArmInit(t) ==
  /\ pc[t] = "boot"
  /\ arm' = Append(arm, ArmCall("Init"))
  /\ loc' = [loc EXCEPT ![t] = [NoLoc EXCEPT !.op = "hwinit"]]
  /\ pc' = [pc EXCEPT ![t] = "h_vfp"]
  /\ UNCHANGED <<regs, rxFifo, UART2, mutex, Family, Native, getRandomDataFn,
                 rngbInit, ret, calls>>

\* hwinit: ARM.EnableVFP()
HwinitEnableVFP(t) ==
  /\ pc[t] = "h_vfp"
  /\ arm' = Append(arm, ArmCall("EnableVFP"))
  /\ pc' = [pc EXCEPT ![t] = "h_cache"]
  /\ UNCHANGED <<regs, rxFifo, UART2, mutex, Family, Native, getRandomDataFn,
                 rngbInit, loc, ret, calls>>

\* hwinit: ARM.CacheEnable()
HwinitCacheEnable(t) ==
  /\ pc[t] = "h_cache"
  /\ arm' = Append(arm, ArmCall("CacheEnable"))
  /\ pc' = [pc EXCEPT ![t] = "h_silicon"]
  /\ UNCHANGED <<regs, rxFifo, UART2, mutex, Family, Native, getRandomDataFn,
                 rngbInit, loc, ret, calls>>

\* hwinit: _, fam, revMajor, revMinor := SiliconVersion(); Family = fam
HwinitFamily(t) ==
  /\ pc[t] = "h_silicon"
  /\ LET v == SiliconVersion(regs)
     IN  /\ Family' = v[2]
         /\ loc' = [loc EXCEPT ![t].revMajor = v[3], ![t].revMinor = v[4]]
  /\ pc' = [pc EXCEPT ![t] = "h_native"]
  /\ UNCHANGED <<regs, rxFifo, UART2, mutex, Native, getRandomDataFn,
                 rngbInit, arm, ret, calls>>

\* Mutant of HwinitNative: the timer is started before the console.
HwinitNative_thenTimer(t) ==
  /\ pc[t] = "h_native"
  /\ Native' = IF loc[t].revMajor # 0 \/ loc[t].revMinor # 0 THEN TRUE ELSE Native
  /\ pc' = [pc EXCEPT ![t] = "h_timer"]
  /\ UNCHANGED <<regs, rxFifo, UART2, mutex, Family, getRandomDataFn,
                 rngbInit, arm, loc, ret, calls>>

\* hwinit: if revMajor != 0 || revMinor != 0 { Native = true }
HwinitNative(t) ==
  /\ pc[t] = "h_native"
  /\ Native' = IF loc[t].revMajor # 0 \/ loc[t].revMinor # 0 THEN TRUE ELSE Native
  /\ pc' = [pc EXCEPT ![t] = "h_uart"]
  /\ UNCHANGED <<regs, rxFifo, UART2, mutex, Family, getRandomDataFn,
                 rngbInit, arm, loc, ret, calls>>

\* hwinit: UART2.init(UART2_BASE, UART_DEFAULT_BAUDRATE), up to its hw.Init
HwinitUart(t) ==
  /\ pc[t] = "h_uart"
  /\ UART2' = uartAddrs(UART2_BASE)
  /\ loc' = [loc EXCEPT ![t].arg = UART_DEFAULT_BAUDRATE]
  /\ pc' = [pc EXCEPT ![t] = "i_lock"]
  /\ UNCHANGED <<regs, rxFifo, mutex, Family, Native, getRandomDataFn,
                 rngbInit, arm, ret, calls>>

\* hwinit: switch Family { ... }: start the timer source, and return
HwinitTimer(t) ==
  /\ pc[t] = "h_timer"
  /\ arm' = Append(arm, hwinitTimer(Family, Native))
  /\ loc' = [loc EXCEPT ![t] = NoLoc]
  /\ pc' = [pc EXCEPT ![t] = "rt_initrng"]
  /\ UNCHANGED <<regs, rxFifo, UART2, mutex, Family, Native, getRandomDataFn,
                 rngbInit, ret, calls>>

\* initRNG
InitRNG(t) ==
  /\ pc[t] = "rt_initrng"
  /\ getRandomDataFn' = initRNGChoice(Family, Native)
  /\ rngbInit' = (rngbInit \/ initRNGChoice(Family, Native) = "RNGB")
  /\ pc' = [pc EXCEPT ![t] = IF loc[t].op = "initRNG" THEN "ret" ELSE "idle"]
  /\ UNCHANGED <<regs, rxFifo, UART2, mutex, Family, Native, arm, loc, ret,
                 calls>>

\* ------------------------------------------------------------ Uart.Init

\* What a step of Init leaves alone besides regs, pc and loc.
InitFrame == UNCHANGED <<rxFifo, UART2, mutex, Family, Native, getRandomDataFn,
                         rngbInit, arm, ret, calls>>

\* A step of Init that stores into registers and moves on.
InitStore(t, from, to, R) ==
  /\ pc[t] = from
  /\ regs' = R
  /\ pc' = [pc EXCEPT ![t] = to]
  /\ UNCHANGED loc
  /\ InitFrame

\* Mutant of InitLock: the lock is taken without waiting for it to be free.
InitLock_noWait(t) ==
  /\ pc[t] = "i_lock"
  /\ mutex' = t
  /\ pc' = [pc EXCEPT ![t] = "i_ucr1"]
  /\ UNCHANGED <<regs, rxFifo, UART2, Family, Native, getRandomDataFn,
                 rngbInit, arm, loc, ret, calls>>

\* hw.Lock()
InitLock(t) ==
  /\ pc[t] = "i_lock"
  /\ mutex = "none"
  /\ mutex' = t
  /\ pc' = [pc EXCEPT ![t] = "i_ucr1"]
  /\ UNCHANGED <<regs, rxFifo, UART2, Family, Native, getRandomDataFn,
                 rngbInit, arm, loc, ret, calls>>

\* reg.Write(hw.ucr1, 0)
InitDisableUCR1(t) == InitStore(t, "i_ucr1", "i_ucr2", regWrite(regs, UART2.ucr1, 0))

\* reg.Write(hw.ucr2, 0)
InitDisableUCR2(t) == InitStore(t, "i_ucr2", "i_wait", regWrite(regs, UART2.ucr2, 0))

\* Mutant of InitWaitSRST: one poll, and Init goes on whatever the bit reads.
InitWaitSRST_once(t) ==
  /\ pc[t] = "i_wait"
  /\ loc' = [loc EXCEPT ![t].srst = regGet(regs, UART2.ucr2, UCR2_SRST, 1)]
  /\ pc' = [pc EXCEPT ![t] = "i_ucr3"]
  /\ UNCHANGED regs
  /\ InitFrame

\* reg.Wait(hw.ucr2, UCR2_SRST, 1, 1): one poll; the loop ends when the bit
\* reads 1
InitWaitSRST(t) ==
  /\ pc[t] = "i_wait"
  /\ LET b == regGet(regs, UART2.ucr2, UCR2_SRST, 1)
     IN  /\ loc' = [loc EXCEPT ![t].srst = b]
         /\ pc' = [pc EXCEPT ![t] = IF b = 1 THEN "i_ucr3" ELSE "i_wait"]
  /\ UNCHANGED regs
  /\ InitFrame

\* reg.Write(hw.ucr3, ucr3)
InitUCR3(t) == InitStore(t, "i_ucr3", "i_ucr4", regWrite(regs, UART2.ucr3, initUcr3))

\* reg.SetN(hw.ucr4, UCR4_CTSTL, 0b111111, 32)
InitUCR4(t) ==
  InitStore(t, "i_ucr4", "i_uesc", regSetN(regs, UART2.ucr4, UCR4_CTSTL, 63, 32))

\* reg.Write(hw.uesc, ESC)
InitUESC(t) == InitStore(t, "i_uesc", "i_utim", regWrite(regs, UART2.uesc, ESC))

\* Mutant of InitUTIM: the escape timer is left as it was.
InitUTIM_skip(t) == InitStore(t, "i_utim", "i_ufcr", regs)

\* reg.Write(hw.utim, 0)
InitUTIM(t) == InitStore(t, "i_utim", "i_ufcr", regWrite(regs, UART2.utim, 0))

\* reg.Write(hw.ufcr, ufcr)
InitUFCR(t) == InitStore(t, "i_ufcr", "i_brm", regWrite(regs, UART2.ufcr, initUfcr))

\* clk := uartclk() / 6; ubmr := clk / (2 * baudrate): a zero divisor is a
\* run-time panic, which ends the program with the lock held
InitBRM(t) ==
  /\ pc[t] = "i_brm"
  /\ IF 2 * loc[t].arg = 0
     THEN /\ pc' = [pc EXCEPT ![t] = "panic"]
          /\ UNCHANGED loc
     ELSE /\ loc' = [loc EXCEPT ![t].ubmr = initUbmr(initClk(regs), loc[t].arg)]
          /\ pc' = [pc EXCEPT ![t] = "i_ubir"]
  /\ UNCHANGED regs
  /\ InitFrame

\* reg.Write(hw.ubir, 15)
InitUBIR(t) == InitStore(t, "i_ubir", "i_ubmr", regWrite(regs, UART2.ubir, 15))

\* reg.Write(hw.ubmr, ubmr)
InitUBMR(t) ==
  InitStore(t, "i_ubmr", "i_ucr2b", regWrite(regs, UART2.ubmr, loc[t].ubmr))

\* reg.Write(hw.ucr2, ucr2)
InitUCR2(t) == InitStore(t, "i_ucr2b", "i_enable", regWrite(regs, UART2.ucr2, initUcr2))

\* reg.Set(hw.ucr1, UCR1_UARTEN)
InitEnable(t) ==
  InitStore(t, "i_enable", "i_unlock", regSet(regs, UART2.ucr1, UCR1_UARTEN))

\* Mutant of InitUnlock: Init returns without releasing the lock.
InitUnlock_keep(t) ==
  /\ pc[t] = "i_unlock"
  /\ pc' = [pc EXCEPT ![t] = IF loc[t].op = "hwinit" THEN "h_timer" ELSE "ret"]
  /\ UNCHANGED <<regs, rxFifo, UART2, mutex, Family, Native, getRandomDataFn,
                 rngbInit, arm, loc, ret, calls>>

\* hw.Unlock(), and return: to hwinit when it made the call
InitUnlock(t) ==
  /\ pc[t] = "i_unlock"
  /\ mutex' = "none"
  /\ pc' = [pc EXCEPT ![t] = IF loc[t].op = "hwinit" THEN "h_timer" ELSE "ret"]
  /\ UNCHANGED <<regs, rxFifo, UART2, Family, Native, getRandomDataFn,
                 rngbInit, arm, loc, ret, calls>>

\* ----------------------------------------------------------- Uart.Write

\* Mutant of WriteUTXD: the store waits for the instance's lock to be free.
WriteUTXD_locked(t) ==
  /\ pc[t] = "w_utxd"
  /\ mutex = "none"
  /\ regs' = HwAfterUtxdWrite(regWrite(regs, UART2.utxd, loc[t].arg))
  /\ pc' = [pc EXCEPT ![t] = "w_poll"]
  /\ UNCHANGED <<rxFifo, UART2, mutex, Family, Native, getRandomDataFn,
                 rngbInit, arm, loc, ret, calls>>

\* reg.Write(hw.utxd, uint32(c))
WriteUTXD(t) ==
  /\ pc[t] = "w_utxd"
  /\ regs' = HwAfterUtxdWrite(regWrite(regs, UART2.utxd, loc[t].arg))
  /\ pc' = [pc EXCEPT ![t] = "w_poll"]
  /\ UNCHANGED <<rxFifo, UART2, mutex, Family, Native, getRandomDataFn,
                 rngbInit, arm, loc, ret, calls>>

\* for hw.txEmpty() { }: one evaluation of the loop condition
WritePoll(t) ==
  /\ pc[t] = "w_poll"
  /\ loc' = [loc EXCEPT ![t].txe = regGet(regs, UART2.uts, UTS_TXEMPTY, 1)]
  /\ pc' = [pc EXCEPT ![t] = IF txEmpty(regs, UART2) THEN "w_poll" ELSE "ret"]
  /\ UNCHANGED <<regs, rxFifo, UART2, mutex, Family, Native, getRandomDataFn,
                 rngbInit, arm, ret, calls>>

\* ------------------------------------------------------------ Uart.Read

ReadFrame == UNCHANGED <<UART2, mutex, Family, Native, getRandomDataFn,
                         rngbInit, arm, calls>>

\* if !hw.rxReady() { return }
ReadReady(t) ==
  /\ pc[t] = "r_ready"
  /\ loc' = [loc EXCEPT ![t].rdr = regGet(regs, UART2.usr2, USR2_RDR, 1)]
  /\ IF ~rxReady(regs, UART2)
     THEN /\ ret' = [ret EXCEPT ![t] = <<0, FALSE>>]
          /\ pc' = [pc EXCEPT ![t] = "ret"]
     ELSE /\ pc' = [pc EXCEPT ![t] = "r_error"]
          /\ UNCHANGED ret
  /\ UNCHANGED <<regs, rxFifo>>
  /\ ReadFrame

\* if hw.rxError() { return }
ReadError(t) ==
  /\ pc[t] = "r_error"
  /\ loc' = [loc EXCEPT ![t].rxw = regRead(regs, UART2.urxd),
                        ![t].err = regGet(regs, UART2.urxd, URXD_PRERR, 31)]
  /\ IF rxError(regs, UART2)
     THEN /\ ret' = [ret EXCEPT ![t] = <<0, FALSE>>]
          /\ pc' = [pc EXCEPT ![t] = "ret"]
     ELSE /\ pc' = [pc EXCEPT ![t] = "r_data"]
          /\ UNCHANGED ret
  /\ LET h == HwAfterUrxdRead(regs, rxFifo)
     IN  regs' = h.regs /\ rxFifo' = h.fifo
  /\ ReadFrame

\* return byte(reg.Get(hw.urxd, URXD_RX_DATA, 0xff)), true
ReadData(t) ==
  /\ pc[t] = "r_data"
  /\ ret' = [ret EXCEPT ![t] = <<regGet(regs, UART2.urxd, URXD_RX_DATA, 255), TRUE>>]
  /\ pc' = [pc EXCEPT ![t] = "ret"]
  /\ LET h == HwAfterUrxdRead(regs, rxFifo)
     IN  regs' = h.regs /\ rxFifo' = h.fifo
  /\ UNCHANGED loc
  /\ ReadFrame

\* --------------------------------------------------------------- Reboot

\* Mutant of RebootClear: the warm-reset-enable bit is set, not cleared.
RebootClear_set(t) ==
  /\ pc[t] = "rb_clear"
  /\ regs' = regSet(regs, SRC_SCR, SCR_WARM_RESET_ENABLE)
  /\ pc' = [pc EXCEPT ![t] = "rb_wdog"]
  /\ UNCHANGED <<rxFifo, UART2, mutex, Family, Native, getRandomDataFn,
                 rngbInit, arm, loc, ret, calls>>

\* reg.Clear(SRC_SCR, SCR_WARM_RESET_ENABLE)
RebootClear(t) ==
  /\ pc[t] = "rb_clear"
  /\ regs' = regClear(regs, SRC_SCR, SCR_WARM_RESET_ENABLE)
  /\ pc' = [pc EXCEPT ![t] = "rb_wdog"]
  /\ UNCHANGED <<rxFifo, UART2, mutex, Family, Native, getRandomDataFn,
                 rngbInit, arm, loc, ret, calls>>

\* reg.Write16(WDOG1_WCR, 0): the watchdog resets the SoC, nothing runs after
RebootWdog(t) ==
  /\ pc[t] = "rb_wdog"
  /\ regs' = regWrite16(regs, WDOG1_WCR, 0)
  /\ pc' = [pc EXCEPT ![t] = "rebooted"]
  /\ UNCHANGED <<rxFifo, UART2, mutex, Family, Native, getRandomDataFn,
                 rngbInit, arm, loc, ret, calls>>

\* ---------------------------------------------------------------- calls

\* A thread that is between calls starts one.
Call(t, op, arg, to) ==
  /\ pc[t] = "idle"
  /\ calls[t] < (IF t \in Procs THEN MaxProcCalls ELSE MaxCalls)
  /\ calls' = [calls EXCEPT ![t] = @ + 1]
  /\ loc' = [loc EXCEPT ![t] = [NoLoc EXCEPT !.op = op, !.arg = arg]]
  /\ pc' = [pc EXCEPT ![t] = to]

CallFrame == UNCHANGED <<regs, rxFifo, UART2, mutex, Family, Native,
                         getRandomDataFn, rngbInit, arm>>

CallInit(t, baudrate) ==
  Call(t, "Init", baudrate, "i_lock") /\ UNCHANGED ret /\ CallFrame

CallWrite(t, c) ==
  Call(t, "Write", c, "w_utxd") /\ UNCHANGED ret /\ CallFrame

CallRead(t) ==
  Call(t, "Read", 0, "r_ready") /\ UNCHANGED ret /\ CallFrame

CallReboot(t) ==
  Call(t, "Reboot", 0, "rb_clear") /\ UNCHANGED ret /\ CallFrame

\* SiliconVersion(), Model() and UniqueID() run to their return in one step.
CallSiliconVersion(t) ==
  /\ Call(t, "SiliconVersion", 0, "ret")
  /\ ret' = [ret EXCEPT ![t] = SiliconVersion(regs)]
  /\ CallFrame

CallModel(t) ==
  /\ Call(t, "Model", 0, "ret")
  /\ ret' = [ret EXCEPT ![t] = <<Model(Family)>>]
  /\ CallFrame

CallUniqueID(t) ==
  /\ Call(t, "UniqueID", 0, "ret")
  /\ ret' = [ret EXCEPT ![t] = UniqueID(regs)]
  /\ CallFrame

\* initRNG called again after bring-up.
CallInitRNG(t) ==
  Call(t, "initRNG", 0, "rt_initrng") /\ UNCHANGED ret /\ CallFrame

\* The multiplier the ARM timer set-up leaves for nanotime1: nanoseconds per
\* tick of the generic timer, 10 for the global timer.
TimerMultiplier(a) ==
  IF a.fn = "InitGenericTimers" THEN 1000000000 \div a.freq ELSE 10

\* nanotime1(): ARM.TimerFn() * ARM.TimerMultiplier
nanotime1(ticks, mult) == ticks * mult

\* Mutant of CallNanotime1: the reading is kept in a process-wide variable.
CallNanotime1_caching(t, ticks) ==
  /\ Call(t, "nanotime1", ticks, "ret")
  /\ ret' = [ret EXCEPT ![t] = <<nanotime1(ticks, TimerMultiplier(arm[Len(arm)]))>>]
  /\ Family' = ticks
  /\ UNCHANGED <<regs, rxFifo, UART2, mutex, Native, getRandomDataFn,
                 rngbInit, arm>>

\* nanotime1() runs to its return in one step; ticks is the counter's reading.
CallNanotime1(t, ticks) ==
  /\ Call(t, "nanotime1", ticks, "ret")
  /\ ret' = [ret EXCEPT ![t] = <<nanotime1(ticks, TimerMultiplier(arm[Len(arm)]))>>]
  /\ CallFrame

\* The caller takes the result; the thread is between calls again.
Return(t) ==
  /\ pc[t] = "ret"
  /\ pc' = [pc EXCEPT ![t] = "idle"]
  /\ loc' = [loc EXCEPT ![t] = NoLoc]
  /\ ret' = [ret EXCEPT ![t] = << >>]
  /\ UNCHANGED <<regs, rxFifo, UART2, mutex, Family, Native, getRandomDataFn,
                 rngbInit, arm, calls>>

\* -------------------------------------------------------- specification

Next ==
  \/ HwSrstDone
  \/ HwTxDone
  \/ \E t \in Threads :
       \/ HwinitArmInit(t) \/ HwinitEnableVFP(t) \/ HwinitCacheEnable(t)
       \/ HwinitFamily(t) \/ HwinitNative(t) \/ HwinitUart(t)
       \/ HwinitTimer(t) \/ InitRNG(t)
       \/ InitLock(t) \/ InitDisableUCR1(t) \/ InitDisableUCR2(t)
       \/ InitWaitSRST(t) \/ InitUCR3(t) \/ InitUCR4(t) \/ InitUESC(t)
       \/ InitUTIM(t) \/ InitUFCR(t) \/ InitBRM(t) \/ InitUBIR(t)
       \/ InitUBMR(t) \/ InitUCR2(t) \/ InitEnable(t) \/ InitUnlock(t)
       \/ WriteUTXD(t) \/ WritePoll(t)
       \/ ReadReady(t) \/ ReadError(t) \/ ReadData(t)
       \/ RebootClear(t) \/ RebootWdog(t)
       \/ \E b \in Bauds : CallInit(t, b)
       \/ \E c \in Chars : CallWrite(t, c)
       \/ CallRead(t) \/ CallReboot(t)
       \/ CallSiliconVersion(t) \/ CallModel(t) \/ CallUniqueID(t)
       \/ CallInitRNG(t)
       \/ \E k \in Ticks : CallNanotime1(t, k)
       \/ Return(t)

Spec == Init /\ [][Next]_vars

\* ------------------------------------------- concurrent callers of UART2

\* The machines the concurrent program starts on: the UART's reset values and
\* a register file with every bit set, each with one more received entry.
ConcMachines ==
  {[regs |-> Machine(DefDigprog, 0, img, DefRx, <<1, 48>>, <<0, 0>>),
    fifo |-> <<32768 + 68>>] : img \in {"reset", "ones"}}

ConcBauds == {0, UART_DEFAULT_BAUDRATE}

ConcChars == {65}

InitConc ==
  /\ \E m \in ConcMachines : regs = m.regs /\ rxFifo = m.fifo
  /\ UART2 = UART2_zero
  /\ mutex = "none"
  /\ Family = 0
  /\ Native = FALSE
  /\ getRandomDataFn = "nil"
  /\ rngbInit = FALSE
  /\ arm = << >>
  /\ pc = [t \in Threads |-> IF t = "main" THEN "boot" ELSE "off"]
  /\ loc = [t \in Threads |-> NoLoc]
  /\ ret = [t \in Threads |-> << >>]
  /\ calls = [t \in Threads |-> 0]

\* The main thread starts the goroutines that share UART2 and waits.
Spawn(t) ==
  /\ t = "main"
  /\ pc[t] = "idle"
  /\ calls[t] = 0
  /\ pc' = [p \in Threads |-> IF p \in Procs THEN "idle" ELSE "waiting"]
  /\ UNCHANGED <<regs, rxFifo, UART2, mutex, Family, Native, getRandomDataFn,
                 rngbInit, arm, loc, ret, calls>>

\* A run-time panic ends the program: no goroutine takes another step.
Alive == \A t \in Threads : pc[t] # "panic"

\* A step of a call that is running in thread t.
Running(t) ==
  \/ HwinitArmInit(t) \/ HwinitEnableVFP(t) \/ HwinitCacheEnable(t)
  \/ HwinitFamily(t) \/ HwinitNative(t) \/ HwinitUart(t)
  \/ HwinitTimer(t) \/ InitRNG(t)
  \/ InitLock(t) \/ InitDisableUCR1(t) \/ InitDisableUCR2(t)
  \/ InitWaitSRST(t) \/ InitUCR3(t) \/ InitUCR4(t) \/ InitUESC(t)
  \/ InitUTIM(t) \/ InitUFCR(t) \/ InitBRM(t) \/ InitUBIR(t)
  \/ InitUBMR(t) \/ InitUCR2(t) \/ InitEnable(t) \/ InitUnlock(t)
  \/ WriteUTXD(t) \/ WritePoll(t)
  \/ ReadReady(t) \/ ReadError(t) \/ ReadData(t)
  \/ Return(t)

NextConc ==
  \/ HwSrstDone
  \/ HwTxDone
  \/ \E t \in Threads :
       \/ Alive /\ HwinitArmInit(t)
       \/ Alive /\ HwinitEnableVFP(t)
       \/ Alive /\ HwinitCacheEnable(t)
       \/ Alive /\ HwinitFamily(t)
       \/ Alive /\ HwinitNative(t)
       \/ Alive /\ HwinitUart(t)
       \/ Alive /\ HwinitTimer(t)
       \/ Alive /\ InitRNG(t)
       \/ Alive /\ InitLock(t)
       \/ Alive /\ InitDisableUCR1(t)
       \/ Alive /\ InitDisableUCR2(t)
       \/ Alive /\ InitWaitSRST(t)
       \/ Alive /\ InitUCR3(t)
       \/ Alive /\ InitUCR4(t)
       \/ Alive /\ InitUESC(t)
       \/ Alive /\ InitUTIM(t)
       \/ Alive /\ InitUFCR(t)
       \/ Alive /\ InitBRM(t)
       \/ Alive /\ InitUBIR(t)
       \/ Alive /\ InitUBMR(t)
       \/ Alive /\ InitUCR2(t)
       \/ Alive /\ InitEnable(t)
       \/ Alive /\ InitUnlock(t)
       \/ Alive /\ WriteUTXD(t)
       \/ Alive /\ WritePoll(t)
       \/ Alive /\ ReadReady(t)
       \/ Alive /\ ReadError(t)
       \/ Alive /\ ReadData(t)
       \/ Alive /\ Return(t)
       \/ Alive /\ Spawn(t)
       \/ \E b \in ConcBauds : Alive /\ CallInit(t, b)
       \/ \E c \in ConcChars : Alive /\ CallWrite(t, c)
       \/ Alive /\ CallRead(t)

ConcSpec == InitConc /\ [][NextConc]_vars

\* The scheduler runs every runnable goroutine, and the hardware completes a
\* software reset and a transmission it has started.
FairSpec ==
  /\ ConcSpec
  /\ WF_vars(HwSrstDone)
  /\ WF_vars(HwTxDone)
  /\ \A t \in Threads : WF_vars(Alive /\ Running(t))

\* --------------------------------------------------------------- claims

BitOf(w, n) == (w \div (2 ^ n)) % 2

UBMR_ADDR == UART2_BASE + UARTx_UBMR
UBIR_ADDR == UART2_BASE + UARTx_UBIR
UTXD_ADDR == UART2_BASE + UARTx_UTXD
UCR1_ADDR == UART2_BASE + UARTx_UCR1

InitSteps ==
  {"i_lock", "i_ucr1", "i_ucr2", "i_wait", "i_ucr3", "i_ucr4", "i_uesc",
   "i_utim", "i_ufcr", "i_brm", "i_ubir", "i_ubmr", "i_ucr2b", "i_enable",
   "i_unlock"}

\* The thread is inside hwinit (its call of Uart.Init included).
InHwinit(t) == pc[t] = "boot" \/ loc[t].op = "hwinit"

\* hwinit has returned.
HwinitDone == \A t \in Threads : ~InHwinit(t)

\* Every store of Init is done; only the unlock is left.
InitCompleted(t) == pc[t] = "i_unlock"

\* Family byte and native flag as the chip-version register encodes them.
DigprogFamily == (regs[USB_ANALOG_DIGPROG] \div 65536) % 256
DigprogNative ==
  ~ ((regs[USB_ANALOG_DIGPROG] \div 256) % 256 = 0
     /\ regs[USB_ANALOG_DIGPROG] % 256 = 0)

\* C1: when Init(B) completes for a baud rate B >= 1 (2*B below 2^32), UBMR
\* holds floor((uartclk()/6) / (2*B)) and UBIR holds 15, for every clock
\* select and divider.
C1_BaudRegisters ==
  \A t \in Threads :
    (InitCompleted(t) /\ loc[t].arg >= 1) =>
      LET c == uartclk(regs) \div 6
          d == 2 * loc[t].arg
          n == regs[UBMR_ADDR]
      IN  /\ n >= 0
          /\ n * d <= c
          /\ c - n * d < d
          /\ regs[UBIR_ADDR] = 15

\* Init(115200) on the 480 MHz clock with divider 0 completes with UBMR = 347.
C1_Witness ==
  \E t \in Threads :
    /\ InitCompleted(t) /\ loc[t].op = "Init" /\ loc[t].arg = 115200
    /\ regs[CCM_CSCDR1] = 0
    /\ regs[UBMR_ADDR] = 347 /\ regs[UBIR_ADDR] = 15

\* C2: Read returns (0, false) whenever USR2.RDR reads 0, whatever the
\* receive-data register holds; the receive-data register is not even loaded.
C2_ReadyGates ==
  \A t \in Threads :
    (loc[t].op = "Read" /\ loc[t].rdr = 0) =>
      /\ pc[t] = "ret"
      /\ ret[t] = <<0, FALSE>>
      /\ loc[t].rxw = -1

\* Read has returned (0, false) on RDR = 0 while URXD shows a clean character.
C2_Witness ==
  \E t \in Threads :
    /\ loc[t].op = "Read" /\ loc[t].rdr = 0 /\ pc[t] = "ret"
    /\ regs[URXD_ADDR] = 32768 + 65

\* C3: Read returns (0, false) whenever any of bits 10..14 of the
\* receive-data word it loads is set, even with RDR = 1; valid = true is
\* returned only when RDR read 1 and bits 10..14 are all 0.
C3_ErrorDrops ==
  \A t \in Threads :
    loc[t].op = "Read" =>
      /\ (loc[t].rxw >= 0 /\ (loc[t].rxw \div 1024) % 32 # 0) =>
           (pc[t] = "ret" /\ ret[t] = <<0, FALSE>>)
      /\ (pc[t] = "ret" /\ ret[t][2]) =>
           (loc[t].rdr = 1 /\ loc[t].rxw >= 0 /\ (loc[t].rxw \div 1024) % 32 = 0)

\* Read has returned (0, false) with RDR = 1 on a word whose only error bit
\* is bit 14.
C3_Witness ==
  \E t \in Threads :
    /\ loc[t].op = "Read" /\ pc[t] = "ret" /\ loc[t].rdr = 1
    /\ loc[t].rxw = 32768 + 16384 + 66
    /\ ret[t] = <<0, FALSE>>

\* C4: Write(c) stores c in UTXD before it polls; it has not returned while
\* the last TXEMPTY it read is 0 (or it has read none), and it returns at
\* the poll that reads 1.
C4_WriteBlocks ==
  \A t \in Threads :
    loc[t].op = "Write" =>
      /\ pc[t] \in {"w_utxd", "w_poll", "ret"}
      /\ pc[t] = "w_utxd" => loc[t].txe = -1
      /\ pc[t] = "w_poll" => (loc[t].txe \in {-1, 0} /\ regs[UTXD_ADDR] = loc[t].arg)
      /\ pc[t] = "ret" => (loc[t].txe = 1 /\ regs[UTXD_ADDR] = loc[t].arg)

\* Write(255) is still polling after a poll that read TXEMPTY = 0.
C4_Witness ==
  \E t \in Threads :
    /\ loc[t].op = "Write" /\ loc[t].arg = 255 /\ pc[t] = "w_poll"
    /\ loc[t].txe = 0 /\ regs[UTXD_ADDR] = 255

\* C5: once hwinit has run, Family is bits 16..23 of the chip-version
\* register and Native is false exactly when bits 8..15 and 0..7 are all 0.
C5_Identify ==
  HwinitDone => (Family = DigprogFamily /\ Native = DigprogNative)

\* hwinit has run on family 0x65, revision 0.0, with bits set above the
\* family byte.
C5_Witness ==
  /\ HwinitDone
  /\ regs[USB_ANALOG_DIGPROG] = Shl(18, 24) + Shl(101, 16)
  /\ Family = 101 /\ Native = FALSE

\* C6: after hwinit and initRNG the entropy source is the hardware generator
\* iff the family is IMX6ULL (0x65) and the chip is native; otherwise it is
\* the fallback generator and the hardware generator is not initialized.
C6_EntropySource ==
  getRandomDataFn # "nil" =>
    /\ HwinitDone
    /\ getRandomDataFn \in {"RNGB", "LCG"}
    /\ getRandomDataFn = "RNGB" <=> (DigprogFamily = 101 /\ DigprogNative)
    /\ rngbInit <=> getRandomDataFn = "RNGB"

\* Family 0x65 at revision 0.0: bound to the fallback generator.
C6_Witness ==
  /\ getRandomDataFn = "LCG" /\ ~rngbInit
  /\ Family = 101 /\ ~Native
  /\ regs[USB_ANALOG_DIGPROG] = Shl(101, 16)

\* C7: Reboot clears bit 0 of SRC_SCR before it stores 0 in the 16-bit
\* WDOG1_WCR: the store happens with the bit already 0, and after the call
\* the bit reads 0 and the watchdog-control register reads 0.
C7_Reboot ==
  \A t \in Threads :
    /\ pc[t] = "rb_wdog" => BitOf(regs[SRC_SCR], 0) = 0
    /\ pc[t] = "rebooted" =>
         (BitOf(regs[SRC_SCR], 0) = 0 /\ regs[WDOG1_WCR] % 65536 = 0)

\* Reboot has run on registers that had every bit set.
C7_Witness ==
  \E t \in Threads :
    /\ pc[t] = "rebooted"
    /\ regs[SRC_SCR] = AllOnes - 1
    /\ regs[WDOG1_WCR] = AllOnes - 65535

\* C8: Model() returns "i.MX6Q", "i.MX6UL", "i.MX6ULL" for Family 0x63, 0x64,
\* 0x65 and "unknown" for every other Family.
C8_ModelName ==
  \A t \in Threads :
    (loc[t].op = "Model" /\ pc[t] = "ret") =>
      /\ Len(ret[t]) = 1
      /\ Family = 99 => ret[t][1] = "i.MX6Q"
      /\ Family = 100 => ret[t][1] = "i.MX6UL"
      /\ Family = 101 => ret[t][1] = "i.MX6ULL"
      /\ Family \notin {99, 100, 101} => ret[t][1] = "unknown"

\* Model() has returned "unknown" for the unrecognized family code 0x66.
C8_Witness ==
  \E t \in Threads :
    /\ loc[t].op = "Model" /\ pc[t] = "ret"
    /\ Family = 102 /\ ret[t] = <<"unknown">>

TimerFns == {"InitGlobalTimers", "InitGenericTimers"}

\* C9: hwinit runs ARM.Init, EnableVFP, CacheEnable, the silicon
\* identification (Family, Native), the UART2 initialization at UART2_BASE
\* and 115200 baud, and the timer start, in this order.
C9_HwinitOrder ==
  \A t \in Threads :
    /\ Len(arm) <= 4
    /\ Len(arm) >= 1 => arm[1].fn = "Init"
    /\ Len(arm) >= 2 => arm[2].fn = "EnableVFP"
    /\ Len(arm) >= 3 => arm[3].fn = "CacheEnable"
    /\ Len(arm) >= 4 => arm[4].fn \in TimerFns
    /\ pc[t] \in {"h_silicon", "h_native", "h_uart"} => Len(arm) = 3
    /\ pc[t] \in {"boot", "h_vfp", "h_cache", "h_silicon", "h_native", "h_uart"} =>
         (UART2 = UART2_zero /\ mutex = "none")
    /\ pc[t] \in {"boot", "h_vfp", "h_cache", "h_silicon"} => (Family = 0 /\ ~Native)
    /\ (InHwinit(t) /\ pc[t] \in InitSteps \cup {"h_uart", "h_timer"}) =>
         (Family = DigprogFamily /\ Native = DigprogNative /\ Len(arm) = 3)
    /\ (InHwinit(t) /\ pc[t] \in InitSteps) =>
         (UART2 = uartAddrs(35553280) /\ loc[t].arg = 115200)
    /\ pc[t] = "h_timer" =>
         (UART2 = uartAddrs(35553280) /\ mutex = "none"
          /\ BitOf(regs[UCR1_ADDR], 0) = 1)
    /\ Len(arm) = 4 => HwinitDone

\* hwinit is about to start the timer: three ARM calls made, console enabled.
C9_Witness ==
  \E t \in Threads :
    /\ pc[t] = "h_timer" /\ Len(arm) = 3
    /\ BitOf(regs[UCR1_ADDR], 0) = 1
    /\ regs[UBMR_ADDR] = 347

\* C10: hwinit starts exactly one timer source: the global timer for IMX6Q
\* and for every family code outside the three known ones, the generic timer
\* for IMX6UL and IMX6ULL.
C10_TimerSource ==
  LET started == {i \in DOMAIN arm : arm[i].fn \in TimerFns}
  IN  /\ ~HwinitDone => started = {}
      /\ HwinitDone =>
           /\ Cardinality(started) = 1
           /\ \A i \in started :
                arm[i].fn = IF DigprogFamily \in {100, 101}
                            THEN "InitGenericTimers" ELSE "InitGlobalTimers"

\* hwinit has run on the unrecognized family 0x66 and started the global
\* timer.
C10_Witness ==
  /\ HwinitDone /\ Family = 102
  /\ Len(arm) = 4 /\ arm[4].fn = "InitGlobalTimers"

\* C11 as claimed: for IMX6UL and IMX6ULL the generic timer's frequency
\* depends only on the native flag, and the emulator's frequency is lower
\* than the native one.
C11_EmulatorLower ==
  (HwinitDone /\ DigprogFamily \in {100, 101}) =>
    /\ arm[4].freq = hwinitTimer(100, Native).freq
    /\ arm[4].freq = hwinitTimer(101, Native).freq
    /\ hwinitTimer(Family, FALSE).freq < hwinitTimer(Family, TRUE).freq

\* C11 as amended: for IMX6UL and IMX6ULL the generic timer is seeded at
\* SYS_CNT_BASE with 8,000,000 when the chip is native and with 62,500,000
\* (the higher value) when it is emulated, whatever the family and revision.
C11_TimerFrequency ==
  (HwinitDone /\ DigprogFamily \in {100, 101}) =>
    /\ arm[4].fn = "InitGenericTimers"
    /\ arm[4].base = 35504128
    /\ arm[4].freq = IF DigprogNative THEN 8000000 ELSE 62500000

\* hwinit has run on an emulated IMX6UL and seeded the timer with 62,500,000.
C11_Witness ==
  /\ HwinitDone /\ Family = 100 /\ ~Native
  /\ Len(arm) = 4 /\ arm[4].freq = 62500000

\* The steps of Init between hw.Lock() and hw.Unlock().
InitCritical == InitSteps \ {"i_lock"}

\* C12: Init holds the instance's lock from before its first register store
\* until after its last one: a thread between the lock and the unlock is the
\* holder, and no two threads are there together, so the stores of two Init
\* calls never interleave.
C12_InitExclusive ==
  /\ \A t \in Threads : pc[t] \in InitCritical => mutex = t
  /\ \A t, u \in Threads :
       (pc[t] \in InitCritical /\ pc[u] \in InitCritical) => t = u

\* One goroutine is in the middle of Init's stores while the other has called
\* Init and waits for the lock.
C12_Witness ==
  \E t, u \in Procs :
    /\ t # u
    /\ pc[t] = "i_ufcr" /\ mutex = t
    /\ pc[u] = "i_lock" /\ loc[u].op = "Init"

UCR2_REG == UART2_BASE + UARTx_UCR2
UCR3_ADDR == UART2_BASE + UARTx_UCR3
UCR4_ADDR == UART2_BASE + UARTx_UCR4
UESC_ADDR == UART2_BASE + UARTx_UESC
UTIM_ADDR == UART2_BASE + UARTx_UTIM
UFCR_ADDR == UART2_BASE + UARTx_UFCR

\* The bits of UCR4 outside the six-bit trigger-level field at bit 10.
UCR4Outside(R) == R[UCR4_ADDR] - BitAnd(R[UCR4_ADDR], 63 * 1024)

\* What Init(B) leaves in the registers it programs other than UCR4.
InitLeaves(t) ==
  /\ regs[UCR1_ADDR] = 1
  /\ regs[UCR2_REG] = 16384 + 32 + 4 + 2 + 1
  /\ regs[UCR3_ADDR] = 1024 + 512 + 256 + 128 + 4
  /\ regs[UESC_ADDR] = 27
  /\ regs[UTIM_ADDR] = 0
  /\ regs[UFCR_ADDR] = 4 * 128 + 2 * 1024 + 1
  /\ regs[UBIR_ADDR] = 15
  /\ regs[UBMR_ADDR] = (uartclk(regs) \div 6) \div (2 * loc[t].arg)

\* C13 as claimed: for a given baud rate and clock register, every register
\* Init programs holds after Init what it holds after Init on a zeroed
\* register file, whatever it held before.
C13_SameWhateverBefore ==
  \A t \in Threads :
    InitCompleted(t) => (InitLeaves(t) /\ regs[UCR4_ADDR] = 32 * 1024)

\* C13 as amended: UCR1, UCR2, UCR3, UESC, UTIM, UFCR, UBIR, UBMR and the
\* trigger-level field of UCR4 hold after Init values fixed by the baud rate
\* and the clock register; the other bits of UCR4 are never changed, so they
\* keep what they held before the call, and a second Init(B) leaves what the
\* first one left.
C13_Reprogrammed ==
  /\ [](\A t \in Threads :
          InitCompleted(t) =>
            (InitLeaves(t) /\ (regs[UCR4_ADDR] \div 1024) % 64 = 32))
  /\ [][UCR4Outside(regs') = UCR4Outside(regs)]_vars

\* A second Init has completed on a register file that started with every
\* bit set: UCR4 still has its bits outside the trigger-level field.
C13_Witness ==
  \E t \in Threads :
    /\ InitCompleted(t) /\ loc[t].op = "Init" /\ loc[t].arg = 9600
    /\ calls[t] = 2
    /\ regs[UCR4_ADDR] = AllOnes - 63 * 1024 + 32 * 1024

\* The UART is Ready: bring-up has initialised it, and no Init is between
\* its first store and its last or has ended in a panic.
Ready ==
  /\ HwinitDone
  /\ \A t \in Threads :
       pc[t] \notin ((InitSteps \ {"i_lock", "i_unlock"}) \cup {"panic"})

\* C14: whenever the UART is Ready, UCR1 is exactly UARTEN; UCR2 is exactly
\* IRTS, WS, TXEN, RXEN, SRST; UCR3 is exactly DSR, DCD, RI, ADNIMP,
\* RXDMUXSEL; UFCR has RFDIV = 0b100, TXTL = 2, RXTL = 1; UESC is 0x1b; UTIM
\* is 0; and the trigger-level field of UCR4 is 32.
C14_ReadyRegisters ==
  Ready =>
    /\ regs[UCR1_ADDR] = 1
    /\ regs[UCR2_REG] = 16384 + 32 + 4 + 2 + 1
    /\ regs[UCR3_ADDR] = 1024 + 512 + 256 + 128 + 4
    /\ (regs[UFCR_ADDR] \div 128) % 8 = 4
    /\ (regs[UFCR_ADDR] \div 1024) % 64 = 2
    /\ regs[UFCR_ADDR] % 64 = 1
    /\ regs[UESC_ADDR] = 27
    /\ regs[UTIM_ADDR] = 0
    /\ (regs[UCR4_ADDR] \div 1024) % 64 = 32

\* The UART is Ready after a character was written following a second Init,
\* on a register file that started with every bit set.
C14_Witness ==
  /\ Ready
  /\ \E t \in Threads : loc[t].op = "Write" /\ pc[t] = "ret" /\ calls[t] = 2
  /\ regs[UBMR_ADDR] = (480000000 \div 6) \div (2 * 9600)
  /\ regs[UCR4_ADDR] > 65536

\* C15: once hwinit has returned no step changes Family or Native; once the
\* entropy source is bound no step changes it; and a call of SiliconVersion,
\* UniqueID, Model or nanotime1 changes no register and no process-wide
\* variable.
C15_Frame ==
  [][/\ HwinitDone => (Family' = Family /\ Native' = Native)
     /\ getRandomDataFn # "nil" => getRandomDataFn' = getRandomDataFn
     /\ \A t \in Threads :
          (pc[t] = "idle" /\ loc'[t].op \in {"SiliconVersion", "UniqueID",
                                            "Model", "nanotime1"}) =>
            UNCHANGED <<regs, rxFifo, UART2, mutex, Family, Native,
                        getRandomDataFn, rngbInit, arm>>]_vars

\* On a native IMX6ULL, nanotime1 has returned a nonzero time as the second
\* call after bring-up, with the RNGB source still bound.
C15_Witness ==
  \E t \in Threads :
    /\ loc[t].op = "nanotime1" /\ pc[t] = "ret" /\ calls[t] = 2
    /\ ret[t] = <<7 * 125>>
    /\ Family = 101 /\ Native /\ getRandomDataFn = "RNGB"

\* C16: byte i of UniqueID's result (i in 0..3) is bits 8i..8i+7 of CFG0 and
\* byte 4+i is bits 8i..8i+7 of CFG1, so both words are recovered from the
\* eight bytes.
C16_UniqueIDBytes ==
  \A t \in Threads :
    (loc[t].op = "UniqueID" /\ pc[t] = "ret") =>
      /\ Len(ret[t]) = 8
      /\ \A i \in 0..3 :
           /\ ret[t][1 + i] = (regs[OCOTP_CFG0] \div (256 ^ i)) % 256
           /\ ret[t][5 + i] = (regs[OCOTP_CFG1] \div (256 ^ i)) % 256
      /\ regs[OCOTP_CFG0] = ret[t][1] + 256 * ret[t][2] + 65536 * ret[t][3]
                            + 16777216 * ret[t][4]
      /\ regs[OCOTP_CFG1] = ret[t][5] + 256 * ret[t][6] + 65536 * ret[t][7]
                            + 16777216 * ret[t][8]

\* UniqueID has returned 04 03 02 01 0d 0c 0b 7a for CFG0 = 0x01020304 and
\* CFG1 = 0x7a0b0c0d.
C16_Witness ==
  \E t \in Threads :
    /\ loc[t].op = "UniqueID" /\ pc[t] = "ret"
    /\ ret[t] = <<4, 3, 2, 1, 13, 12, 11, 122>>

\* The steps of Init after the wait for the software reset.
InitPostWait ==
  {"i_ucr3", "i_ucr4", "i_uesc", "i_utim", "i_ufcr", "i_brm", "i_ubir",
   "i_ubmr", "i_ucr2b", "i_enable", "i_unlock"}

\* The registers Init configures between the reset and the enable.
ConfigRegs ==
  {UCR3_ADDR, UCR4_ADDR, UESC_ADDR, UTIM_ADDR, UFCR_ADDR, UBIR_ADDR, UBMR_ADDR}

\* C17: within one Init, UCR1 and UCR2 are cleared first; no configuration
\* register is stored until SRST has read 1 after the clear; UBIR is stored
\* before UBMR; UCR2 is programmed after both; and UARTEN is set last, so it
\* reads 0 from the clear of UCR1 until the last store.
C17_InitOrder ==
  /\ [](\A t \in Threads :
          /\ pc[t] = "i_wait" => (regs[UCR1_ADDR] = 0 /\ regs[UCR2_REG] \in {0, 1})
          /\ pc[t] \in InitPostWait => loc[t].srst = 1
          /\ pc[t] \in (InitSteps \ {"i_lock", "i_ucr1", "i_unlock"}) =>
               regs[UCR1_ADDR] % 2 = 0
          /\ pc[t] = "i_unlock" => regs[UCR1_ADDR] % 2 = 1
          /\ pc[t] \in {"i_ubmr", "i_ucr2b", "i_enable", "i_unlock"} =>
               regs[UBIR_ADDR] = 15
          /\ pc[t] \in {"i_ucr2b", "i_enable", "i_unlock"} =>
               regs[UBMR_ADDR] = loc[t].ubmr
          /\ pc[t] \in (InitPostWait \ {"i_enable", "i_unlock"}) =>
               regs[UCR2_REG] = 1
          /\ pc[t] \in {"i_enable", "i_unlock"} =>
               regs[UCR2_REG] = 16384 + 32 + 4 + 2 + 1)
  /\ [][/\ (\E a \in ConfigRegs : regs'[a] # regs[a]) =>
             \E t \in Threads :
               /\ pc[t] \in InitPostWait /\ loc[t].srst = 1
               /\ regs[UCR1_ADDR] % 2 = 0
        /\ regs'[UBMR_ADDR] # regs[UBMR_ADDR] =>
             (regs[UBIR_ADDR] = 15 /\ \E t \in Threads : pc[t] = "i_ubmr")
        /\ regs'[UCR1_ADDR] % 2 > regs[UCR1_ADDR] % 2 =>
             \E t \in Threads : pc[t] = "i_enable" /\ pc'[t] = "i_unlock"]_vars

\* Init polled SRST as 0 at least once, later read it as 1, and is about to
\* store UBMR with UARTEN still 0.
C17_Witness ==
  \E t \in Threads :
    /\ pc[t] = "i_ubmr" /\ loc[t].op = "Init" /\ loc[t].srst = 1
    /\ regs[UCR1_ADDR] = 0 /\ regs[UBIR_ADDR] = 15
    /\ regs[UBMR_ADDR] # loc[t].ubmr

\* C18 as claimed: under fair scheduling and a hardware that completes the
\* software reset, every call of Init returns.
C18_EveryInitReturns ==
  \A t \in Threads :
    (pc[t] \in InitSteps) ~> (pc[t] \in {"ret", "h_timer"} /\ mutex # t)

C19_IoIgnoresLock ==
  \A t \in Threads :
    /\ loc[t].op \in {"Write", "Read"} => mutex # t
    /\ (Alive /\ pc[t] = "w_utxd") => ENABLED WriteUTXD(t)
    /\ (Alive /\ pc[t] = "r_error") => ENABLED ReadError(t)
    /\ (Alive /\ pc[t] = "r_data") => ENABLED ReadData(t)

\* Write is at its store to UTXD while the other goroutine is inside Init,
\* holding the lock, with UARTEN reading 0.
C19_Witness ==
  \E t, u \in Procs :
    /\ mutex = t /\ pc[t] = "i_ubir" /\ regs[UCR1_ADDR] % 2 = 0
    /\ pc[u] = "w_utxd" /\ loc[u].op = "Write"

\* C20 as claimed: when Read returns (b, true), b is the low 8 bits of the
\* URXD word whose error field Read checked.
C20_SameWord ==
  \A t \in Threads :
    (loc[t].op = "Read" /\ pc[t] = "ret" /\ Len(ret[t]) = 2 /\ ret[t][2]) =>
      ret[t][1] = loc[t].rxw % 256

====
